---- MODULE Spec2Model ----
(***************************************************************************)
(* Model of the DKNN class of lib/mnist_model.py: a multi-layer nearest-   *)
(* neighbour classifier with a calibrated credibility score.               *)
(*                                                                         *)
(* Abstractions.  An input sample is a small integer id.  The forward pass *)
(* of the (external) network, followed by renorm/reshape and the LSH       *)
(* hashing of faiss.IndexLSH, maps a sample at a layer to a binary code;   *)
(* the codes here are two bits wide and IndexLSH.search ranks the stored   *)
(* codes by Hamming distance to the query code.  Only the neighbour        *)
(* positions I of a search result (D, I) are kept: D is determined by I    *)
(* and the query, and classify discards it.  Arrays are 1-based sequences; *)
(* neighbour positions and class labels keep the 0-based values the        *)
(* program uses.  Floating point votes are integers, and a quotient is the *)
(* pair <<numerator, denominator>> or NaN.                                 *)
(***************************************************************************)
EXTENDS Integers, Sequences, FiniteSets, TLC

\* ------------------------------------------------------------- bounds
MaxTrain == 2      \* training sets have 0..MaxTrain samples
MaxCal   == 2      \* calibration sets have 0..MaxCal samples
MaxK     == 2      \* k ranges over 1..MaxK

\* ---------------------------------------------------- program constants
MinLength == 10    \* np.bincount(..., minlength=10)

\* ------------------------------------------------------------- helpers
Range(s) == {s[i] : i \in DOMAIN s}

Max2(a, b) == IF a >= b THEN a ELSE b

RECURSIVE SeqSum(_)
SeqSum(s) == IF s = <<>> THEN 0 ELSE Head(s) + SeqSum(Tail(s))

RECURSIVE SeqMax(_)
SeqMax(s) == IF Len(s) = 1 THEN s[1] ELSE Max2(Head(s), SeqMax(Tail(s)))

\* Optional arguments (k=None, layers=None).
None == <<>>
Some(v) == <<v>>

\* ------------------------------------------------- the external network
\* named_children() of the network that carry a representation, in order.
Children == <<"relu1", "relu2">>

\* A name that is no child of the network.
NoSuchLayer == "relu9"

\* Code of sample s at a layer: forward pass, renorm, reshape, LSH hash.
LayerCodes == [relu1 |-> <<0, 1, 2, 3>>, relu2 |-> <<0, 3, 1, 2>>]

Rep(name, s) == LayerCodes[name][(s % 4) + 1]

\* Output of child `name` for the batch x (what its forward hook receives).
Output(name, x) == [i \in 1..Len(x) |-> Rep(name, x[i])]

\* ------------------------------------------------------ faiss.IndexLSH
Hamming(a, b) ==
    (IF a % 2 # b % 2 THEN 1 ELSE 0) + (IF a \div 2 # b \div 2 THEN 1 ELSE 0)

\* The sort key of stored code i for the query code q: its distance to q,
\* then its position.
SortKey(index, q) ==
    [i \in DOMAIN index |-> Hamming(index[i], q) * (Len(index) + 1) + i]

\* index.add(xb): the index stores the codes of the vectors in order.
build_index(xb) == xb

\* index.search for one query code: the 0-based positions of the kk best
\* stored codes, best first; faiss fills the slots it cannot fill with -1.
Search(index, q, kk) ==
    LET key  == SortKey(index, q)
        rank == [i \in DOMAIN index |->
                    Cardinality({j \in DOMAIN index : key[j] < key[i]})]
    IN  [r \in 1..kk |->
            IF r <= Len(index)
            THEN (CHOOSE i \in DOMAIN index : rank[i] = r - 1) - 1
            ELSE -1]

\* ------------------------------------------------------- forward hooks
\* hook(model, input, output): self.activations[name] = output
HookWrite(acts, name, output) ==
    [n \in (DOMAIN acts) \cup {name} |-> IF n = name THEN output ELSE acts[n]]

\* The hooks registered by the constructor, in the order the children run.
RegisterHooks(model, lyrs) ==
    [model EXCEPT !.hooks = @ \o SelectSeq(model.children,
                                           LAMBDA n : n \in Range(lyrs))]

\* self.model(x): every registered hook fires once, in order.
RECURSIVE Forward(_, _, _)
Forward(acts, hooks, x) ==
    IF hooks = <<>> THEN acts
    ELSE Forward(HookWrite(acts, Head(hooks), Output(Head(hooks), x)),
                 Tail(hooks), x)

\* A method's outcome: the object afterwards, the exception raised (or
\* "none") and the value returned.
Return(self, val) == [self |-> self, err |-> "none", val |-> val]
Raise(self, err)  == [self |-> self, err |-> err, val |-> <<>>]

\* The network is the caller's: it may or may not accept a batch without
\* samples (BasicModel does not: x.view(x.size(0), -1) after the last hooked
\* child raises on it).
get_activations(self, x) ==
    LET acts == Forward(self.activations, self.model.hooks, x)
    IN  IF Len(x) = 0 /\ ~self.model.accepts_empty
        THEN Raise([self EXCEPT !.activations = acts], "RuntimeError(forward)")
        ELSE Return([self EXCEPT !.activations = acts], acts)

\* ------------------------------------------------------- get_neighbors
\* reps[layer] ... .reshape(x.size(0), -1) and index.search accept the
\* representation only if it holds one vector of the index's width per
\* sample of x; an empty batch cannot be reshaped to (0, -1).
ReshapeError(rep, x) ==
    IF Len(x) = 0 THEN "ValueError(reshape)"
    ELSE IF Len(rep) # Len(x) THEN "ShapeMismatch"
    ELSE "none"

\* One iteration of the loop over zip(self.layers, self.indices): the
\* neighbour positions of every sample of the batch at layer number li.
SearchLayer(self, reps, x, kk, li) ==
    [s \in 1..Len(x) |-> Search(self.indices[li], reps[self.layers[li]][s], kk)]

RECURSIVE NeighborLoop(_, _, _, _, _, _)
NeighborLoop(self, x, kk, lyrs, li, output) ==
    IF li > Len(self.layers) \/ li > Len(self.indices) THEN Return(self, output)
    ELSE IF self.layers[li] \notin Range(lyrs)
         THEN NeighborLoop(self, x, kk, lyrs, li + 1, output)
    ELSE IF ReshapeError(self.activations[self.layers[li]], x) # "none"
         THEN Raise(self, ReshapeError(self.activations[self.layers[li]], x))
    ELSE NeighborLoop(self, x, kk, lyrs, li + 1,
            Append(output, SearchLayer(self, self.activations, x, kk, li)))

\* As get_neighbors, keeping the k it was given in self.k.
get_neighbors_keeping_k(self, x, k, lyrs) ==
    LET kk == IF k = None THEN self.k ELSE k[1]
        ls == IF lyrs = None THEN self.layers ELSE lyrs[1]
        a  == get_activations(self, x)
    IN  IF a.err # "none" THEN a
        ELSE NeighborLoop([a.self EXCEPT !.k = kk], x, kk, ls, 1, <<>>)

get_neighbors(self, x, k, lyrs) ==
    LET kk == IF k = None THEN self.k ELSE k[1]
        ls == IF lyrs = None THEN self.layers ELSE lyrs[1]
        a  == get_activations(self, x)
    IN  IF a.err # "none" THEN a
        ELSE NeighborLoop(a.self, x, kk, ls, 1, <<>>)

\* ------------------------------------------------------------ classify
\* y[idx] for a numpy array y and an integer idx: a negative idx counts
\* from the end.
IndexInRange(y, idx) == -Len(y) <= idx /\ idx < Len(y)

TakeLabel(y, idx) == IF idx >= 0 THEN y[idx + 1] ELSE y[Len(y) + idx + 1]

\* self.y_train.cpu().numpy()[I] for the positions I[i] of one sample.
LabelsOf(y, Ii) == [j \in DOMAIN Ii |-> TakeLabel(y, Ii[j])]

\* np.bincount(lbls, minlength): entry c counts the occurrences of c, and
\* the result has max(minlength, max(lbls) + 1) entries.
Bincount(lbls, minlength) ==
    LET len == IF lbls = <<>> THEN minlength
               ELSE Max2(minlength, SeqMax(lbls) + 1)
    IN  [c \in 1..len |-> Cardinality({j \in DOMAIN lbls : lbls[j] = c - 1})]

\* row += counts succeeds only if counts broadcasts to the shape of row.
Broadcasts(row, counts) == Len(counts) = Len(row) \/ Len(counts) = 1

\* As AddCounts, with `=` written for `+=`.
AddCountsOverwrite(row, counts) ==
    [c \in DOMAIN row |-> IF Len(counts) = 1 THEN counts[1] ELSE counts[c]]

AddCounts(row, counts) ==
    [c \in DOMAIN row |-> row[c] + (IF Len(counts) = 1 THEN counts[1] ELSE counts[c])]

\* The body of `for (_, I) in nb` for one layer's positions I.
CountLayer(self, class_counts, I) ==
    IF \E i \in DOMAIN I : \E j \in DOMAIN I[i] : ~IndexInRange(self.y_train, I[i][j])
    THEN Raise(self, "IndexError")
    ELSE IF \E i \in DOMAIN I :
              ~Broadcasts(class_counts[i],
                          Bincount(LabelsOf(self.y_train, I[i]), MinLength))
    THEN Raise(self, "ValueError(broadcast)")
    ELSE Return(self,
           [i \in DOMAIN class_counts |->
               AddCounts(class_counts[i],
                         Bincount(LabelsOf(self.y_train, I[i]), MinLength))])

RECURSIVE CountLoop(_, _, _)
CountLoop(self, class_counts, nb) ==
    IF nb = <<>> THEN Return(self, class_counts)
    ELSE LET r == CountLayer(self, class_counts, Head(nb))
         IN  IF r.err # "none" THEN r ELSE CountLoop(self, r.val, Tail(nb))

\* np.zeros((x.size(0), self.num_classes))
Zeros(n, m) == [i \in 1..n |-> [c \in 1..m |-> 0]]

classify(self, x) ==
    LET nb == get_neighbors(self, x, None, None)
    IN  IF nb.err # "none" THEN nb
        ELSE CountLoop(nb.self, Zeros(Len(x), self.num_classes), nb.val)

\* --------------------------------------------------------- credibility
\* cred / self.A.shape[0] in floating point: the pair <<n, d>> stands for
\* the quotient n / d, and for NaN when n = d = 0.
Div(n, d) == <<n, d>>

IsNaN(v) == v[2] = 0

FloatGeq(v, w) == ~IsNaN(v) /\ ~IsNaN(w) /\ v[1] * w[2] >= w[1] * v[2]

FloatEq(v, w) == ~IsNaN(v) /\ ~IsNaN(w) /\ v[1] * w[2] = w[1] * v[2]

\* As CountGeq, with `>` written for `>=`.
RECURSIVE CountGt(_, _)
CountGt(A, a) ==
    IF A = <<>> THEN 0
    ELSE (IF Head(A) > a THEN 1 ELSE 0) + CountGt(Tail(A), a)

\* np.sum(self.A >= a)
RECURSIVE CountGeq(_, _)
CountGeq(A, a) ==
    IF A = <<>> THEN 0
    ELSE (IF Head(A) >= a THEN 1 ELSE 0) + CountGeq(Tail(A), a)

\* self.k * len(self.layers) - np.max(class_counts, 1)
Alpha(self, class_counts) ==
    [i \in DOMAIN class_counts |->
        self.k * Len(self.layers) - SeqMax(class_counts[i])]

credibility(self, class_counts) ==
    LET alpha == Alpha(self, class_counts)
    IN  Return(self, [i \in DOMAIN alpha |->
                        Div(CountGeq(self.A, alpha[i]), Len(self.A))])

\* --------------------------------------------------------- constructor
\* The fields set before any work is done (lines 55-63).
NewObject(model, x_train, y_train, lyrs, k, num_classes) ==
    [model |-> model, x_train |-> x_train, y_train |-> y_train,
     layers |-> lyrs, k |-> k, num_classes |-> num_classes,
     indices |-> <<>>, activations |-> <<>>, A |-> <<>>]

\* for layer in layers: ... self.indices.append(index); view(N, -1) of a
\* representation without elements is an error.
RECURSIVE IndexLoop(_, _, _)
IndexLoop(self, reps, li) ==
    IF li > Len(self.layers) THEN Return(self, <<>>)
    ELSE IF Len(self.x_train) = 0 THEN Raise(self, "RuntimeError(view)")
    ELSE IndexLoop([self EXCEPT !.indices =
                        Append(@, build_index(reps[self.layers[li]]))],
                   reps, li + 1)

\* As Calibrate, starting from k instead of k * len(layers).
CalibrateOneLayer(self, n, y_cal, y_pred) ==
    [i \in 1..n |->
        self.k
        - (IF i <= Len(y_cal) /\ i <= Len(y_pred) THEN y_pred[i][y_cal[i] + 1] ELSE 0)]

\* self.A = np.zeros(n) + k * len(layers); A[i] -= y_p[y_c] over zip(y_cal, y_pred)
Calibrate(self, n, y_cal, y_pred) ==
    [i \in 1..n |->
        self.k * Len(self.layers)
        - (IF i <= Len(y_cal) /\ i <= Len(y_pred) THEN y_pred[i][y_cal[i] + 1] ELSE 0)]

\* Lines 80-84: calibration against the indices built so far.
SetUpCalibration(self, x_cal, y_cal) ==
    LET r == classify(self, x_cal)
    IN  IF r.err # "none" THEN r
        ELSE Return([r.self EXCEPT !.A = Calibrate(r.self, Len(x_cal), y_cal, r.val)],
                    <<>>)

DKNN_init(model, x_train, y_train, x_cal, y_cal, lyrs, k, num_classes) ==
    LET hooked == RegisterHooks(model, lyrs)
        self0  == NewObject(hooked, x_train, y_train, lyrs, k, num_classes)
        layer_count == Len(hooked.hooks) - Len(model.hooks)
    IN  IF layer_count # Len(lyrs) THEN Raise(self0, "AssertionError")
        ELSE LET a == get_activations(self0, x_train)
                 b == IndexLoop(a.self, a.val, 1)
             IN  IF a.err # "none" THEN a
                 ELSE IF b.err # "none" THEN b
                 ELSE SetUpCalibration(b.self, x_cal, y_cal)

\* ------------------------------------------------------------- inputs
\* Labels are integers in [0, num_classes); the lowest and the highest.
Labels(nc) == {0, nc - 1}

NumClassesChoices == {2, MinLength}

LayerLists ==
    {<<>>, <<"relu2">>, <<"relu1", "relu2">>, <<"relu2", "relu1">>,
     <<"relu1", NoSuchLayer>>}

\* Training sample i is input i - 1; the other inputs are 2 and 3.
TrainInputs(n) == [i \in 1..n |-> i - 1]

CalInputs(n) == [i \in 1..n |-> 3 - ((i - 1) % 2)]

\* The query batches: one or two of the inputs 2 and 3, in any order.
Batches == [{1} -> {2, 3}] \cup [{1, 2} -> {2, 3}]

\* The (k, layers) arguments get_neighbors is called with: the defaults, and
\* a k above the size of every training set together with a list that leaves
\* out relu2 and names a layer that does not exist.
NeighborArgs ==
    {<<None, None>>, <<Some(MaxTrain + 1), Some(<<"relu1", NoSuchLayer>>)>>}

\* A network nobody has hooked yet.
FreshModel(accepts_empty) ==
    [children |-> Children, hooks |-> <<>>, accepts_empty |-> accepts_empty]

\* Whether the network accepts an empty batch matters only when it is given
\* one: when the training or the calibration set is empty.
Networks(n, m) ==
    IF n = 0 \/ m = 0 THEN {FreshModel(TRUE), FreshModel(FALSE)}
    ELSE {FreshModel(FALSE)}

Configs ==
    UNION {
      {[model |-> net, x_train |-> TrainInputs(n), y_train |-> yt,
        x_cal |-> CalInputs(m), y_cal |-> yc,
        layers |-> ls, k |-> kk, num_classes |-> nc] :
          net \in Networks(n, m),
          yt \in [1..n -> Labels(nc)], yc \in [1..m -> Labels(nc)],
          ls \in LayerLists, kk \in 1..MaxK} :
      n \in 0..MaxTrain, m \in 0..MaxCal, nc \in NumClassesChoices}

\* -------------------------------------------------------------- state
VARIABLES
    args,     \* the arguments of the constructor call
    pc,       \* "new", then "built" or "failed" (the constructor raised)
    dknn,     \* the DKNN object, once built
    op,       \* the last call made
    arg,      \* its argument (the batch x, or class_counts)
    ret,      \* the value it returned
    err,      \* the exception it raised, or "none"
    calls     \* the classify calls in progress, when calls overlap

vars == <<args, pc, dknn, op, arg, ret, err, calls>>

NoObject == <<>>

Init ==
    /\ args \in Configs
    /\ pc = "new"
    /\ dknn = NoObject
    /\ op = "none"
    /\ arg = <<>>
    /\ ret = <<>>
    /\ err = "none"
    /\ calls = <<>>

\* DKNN(model, x_train, y_train, x_cal, y_cal, layers, k, num_classes)
Construct ==
    /\ pc = "new"
    /\ LET r == DKNN_init(args.model, args.x_train, args.y_train, args.x_cal,
                          args.y_cal, args.layers, args.k, args.num_classes)
       IN  /\ pc' = IF r.err = "none" THEN "built" ELSE "failed"
           /\ dknn' = IF r.err = "none" THEN r.self ELSE NoObject
           /\ err' = r.err
    /\ op' = "none"
    /\ arg' = <<>>
    /\ ret' = <<>>
    /\ UNCHANGED <<args, calls>>

\* One complete method call on the built object.
Finish(name, a, r) ==
    /\ dknn' = r.self
    /\ op' = name
    /\ arg' = a
    /\ ret' = r.val
    /\ err' = r.err
    /\ UNCHANGED <<args, pc, calls>>

\* A call is made once the caller is done with the previous result.
Ready == pc = "built" /\ calls = <<>> /\ op = "none"

GetActivations ==
    /\ Ready
    /\ \E x \in Batches : Finish("get_activations", x, get_activations(dknn, x))

GetNeighbors ==
    /\ Ready
    /\ \E x \in Batches, a \in NeighborArgs :
          Finish("get_neighbors", <<x, a[1], a[2]>>,
                 get_neighbors(dknn, x, a[1], a[2]))

Classify ==
    /\ Ready
    /\ \E x \in Batches : Finish("classify", x, classify(dknn, x))

\* credibility is given the matrix classify has just returned.
Credibility ==
    /\ pc = "built" /\ calls = <<>>
    /\ op = "classify" /\ err = "none"
    /\ Finish("credibility", ret, credibility(dknn, ret))

\* The caller drops the result of the last call and goes on.
Resume ==
    /\ pc = "built" /\ calls = <<>>
    /\ op # "none"
    /\ op' = "none"
    /\ arg' = <<>>
    /\ ret' = <<>>
    /\ err' = "none"
    /\ UNCHANGED <<args, pc, dknn, calls>>

Next ==
    \/ Construct
    \/ GetActivations
    \/ GetNeighbors
    \/ Classify
    \/ Credibility
    \/ Resume

Spec == Init /\ [][Next]_vars

\* ---------------------------------------------- overlapping classify calls
\* Two callers run classify on the same object at once.  A call is a thread
\* of Python: its steps are the firing of each forward hook, the return of
\* self.activations from get_activations, each iteration of the loop of
\* get_neighbors (which reads reps[layer] when it gets there), and the
\* counting loop of classify, which works on the call's own data.
Callers == {1, 2}

ConcConfigs ==
    {c \in Configs :
        /\ c.layers = <<"relu1", "relu2">>
        /\ c.num_classes = MinLength
        /\ c.k = 1
        /\ Len(c.x_train) = MaxTrain
        /\ Len(c.x_cal) = 1}

InitConc ==
    /\ args \in ConcConfigs
    /\ pc = "new"
    /\ dknn = NoObject
    /\ op = "none"
    /\ arg = <<>>
    /\ ret = <<>>
    /\ err = "none"
    /\ calls = <<>>

StartCalls ==
    /\ Ready
    /\ \E x1 \in Batches, x2 \in Batches :
          calls' = [c \in Callers |->
                      [pc |-> "forward", x |-> IF c = 1 THEN x1 ELSE x2, h |-> 1,
                       li |-> 1, output |-> <<>>, class_counts |-> <<>>]]
    /\ UNCHANGED <<args, pc, dknn, op, arg, ret, err>>

Running(c) == pc = "built" /\ calls # <<>> /\ c \in DOMAIN calls

\* self.model(x) reaches the next hooked child: its hook stores the output.
HookStep(c) ==
    /\ Running(c)
    /\ calls[c].pc = "forward"
    /\ calls[c].h <= Len(dknn.model.hooks)
    /\ dknn' = [dknn EXCEPT !.activations =
                   HookWrite(@, dknn.model.hooks[calls[c].h],
                             Output(dknn.model.hooks[calls[c].h], calls[c].x))]
    /\ calls' = [calls EXCEPT ![c].h = @ + 1]
    /\ UNCHANGED <<args, pc, op, arg, ret, err>>

\* return self.activations: reps is the dictionary itself, not a copy.
ReturnActivations(c) ==
    /\ Running(c)
    /\ calls[c].pc = "forward"
    /\ calls[c].h > Len(dknn.model.hooks)
    /\ calls' = [calls EXCEPT ![c].pc = "search"]
    /\ UNCHANGED <<args, pc, dknn, op, arg, ret, err>>

\* One iteration of the loop of get_neighbors (layers is self.layers).
LoopStep(c) ==
    /\ Running(c)
    /\ calls[c].pc = "search"
    /\ calls[c].li <= Len(dknn.layers)
    /\ calls' =
         IF ReshapeError(dknn.activations[dknn.layers[calls[c].li]], calls[c].x) # "none"
         THEN [calls EXCEPT ![c].pc = "raised"]
         ELSE [calls EXCEPT
                 ![c].output = Append(@, SearchLayer(dknn, dknn.activations,
                                                     calls[c].x, dknn.k, calls[c].li)),
                 ![c].li = @ + 1]
    /\ UNCHANGED <<args, pc, dknn, op, arg, ret, err>>

\* get_neighbors returns and classify counts the votes.
CountStep(c) ==
    /\ Running(c)
    /\ calls[c].pc = "search"
    /\ calls[c].li > Len(dknn.layers)
    /\ LET r == CountLoop(dknn, Zeros(Len(calls[c].x), dknn.num_classes),
                          calls[c].output)
       IN  calls' = [calls EXCEPT
                       ![c].pc = IF r.err = "none" THEN "done" ELSE "raised",
                       ![c].class_counts = r.val]
    /\ UNCHANGED <<args, pc, dknn, op, arg, ret, err>>

NextConc ==
    \/ Construct
    \/ StartCalls
    \/ \E c \in Callers : HookStep(c)
    \/ \E c \in Callers : ReturnActivations(c)
    \/ \E c \in Callers : LoopStep(c)
    \/ \E c \in Callers : CountStep(c)

SpecConc == InitConc /\ [][NextConc]_vars

\* ================================================================ claims
\* The call get_neighbors was last made with: the k it used and whether the
\* configured layer number l was among the layers it was asked for.
KUsed == IF arg[2] = None THEN dknn.k ELSE arg[2][1]

Requested(l) == arg[3] = None \/ dknn.layers[l] \in Range(arg[3][1])

\* The largest entry of a row, without recursion.
RowMax(row) == CHOOSE m \in Range(row) : \A v \in Range(row) : m >= v

\* The number of (layer, rank) pairs at which the rank-th nearest training
\* sample of input s, in the index made of the training set's codes at that
\* layer, carries label c.
VotesFor(self, s, c) ==
    Cardinality({lr \in (DOMAIN self.layers) \X (1..self.k) :
        TakeLabel(self.y_train,
                  Search(Output(self.layers[lr[1]], self.x_train),
                         Rep(self.layers[lr[1]], s), self.k)[lr[2]]) = c})

\* C1: every row of the matrix classify returns sums to k times the number
\* of configured layers, and the matrix has one row per sample of the batch.
C1_RowSum ==
    (op = "classify" /\ err = "none") =>
        /\ Len(ret) = Len(arg)
        /\ \A i \in DOMAIN ret : SeqSum(ret[i]) = dknn.k * Len(dknn.layers)

C1_Witness ==
    /\ op = "classify" /\ err = "none"
    /\ Len(dknn.layers) = 2 /\ dknn.k = 2 /\ Len(ret) = 2
    /\ \E i \in DOMAIN ret : \E c, d \in DOMAIN ret[i] :
          c # d /\ ret[i][c] > 0 /\ ret[i][d] > 0

\* C2: for every row given to credibility the value returned is the number
\* of stored scores A[j] >= a over the number of stored scores, where
\* a = k * (number of configured layers) - (largest entry of the row); the
\* scores [0,1,1,2,4] and a = 1 give 4/5.
C2_Credibility ==
    /\ Div(CountGeq(<<0, 1, 1, 2, 4>>, 1), 5) = <<4, 5>>
    /\ op = "credibility" =>
          /\ err = "none"
          /\ DOMAIN ret = DOMAIN arg
          /\ \A i \in DOMAIN arg :
                ret[i] = <<Cardinality({j \in DOMAIN dknn.A :
                               dknn.A[j] >= dknn.k * Len(dknn.layers) - RowMax(arg[i])}),
                           Len(dknn.A)>>

C2_Witness ==
    /\ op = "credibility"
    /\ \E i \in DOMAIN ret : 0 < ret[i][1] /\ ret[i][1] < ret[i][2]
    /\ \E j \in DOMAIN dknn.A : \E i \in DOMAIN arg :
          dknn.A[j] = dknn.k * Len(dknn.layers) - RowMax(arg[i])

\* C3: once the constructor has returned, A has one entry per calibration
\* sample, entry i is k * (number of configured layers) minus the votes
\* sample i gets for its own label from the indices of the training set,
\* and there is one such index per configured layer.
C3_Calibration ==
    pc = "built" =>
        /\ Len(dknn.A) = Len(args.x_cal)
        /\ Len(dknn.indices) = Len(dknn.layers)
        /\ \A l \in DOMAIN dknn.layers :
              dknn.indices[l] = Output(dknn.layers[l], args.x_train)
        /\ \A i \in DOMAIN dknn.A :
              dknn.A[i] = args.k * Len(args.layers)
                          - VotesFor(dknn, args.x_cal[i], args.y_cal[i])

C3_Witness ==
    /\ pc = "built"
    /\ Len(dknn.layers) = 2 /\ Len(dknn.A) = 2
    /\ \E i \in DOMAIN dknn.A : 0 < dknn.A[i] /\ dknn.A[i] < dknn.k * 2
    /\ \E i, j \in DOMAIN dknn.A : dknn.A[i] # dknn.A[j]

\* C4: a query for more neighbours than a searched index holds training
\* points fails (in get_neighbors and in classify): it returns no list,
\* short or padded, and no votes.
C4_Original ==
    /\ (op = "get_neighbors"
        /\ \E l \in DOMAIN dknn.layers :
              Requested(l) /\ KUsed > Len(dknn.indices[l]))
          => err # "none"
    /\ (op = "classify"
        /\ \E l \in DOMAIN dknn.layers : dknn.k > Len(dknn.indices[l]))
          => err # "none"

\* C5: with an empty calibration set the constructor fails and no object is
\* produced: no object with an empty A exists for credibility to divide by
\* its size.
C5_Original ==
    /\ Len(args.x_cal) = 0 => pc # "built"
    /\ pc = "built" => Len(dknn.A) > 0

\* C6: a layer name that is not present makes the call fail (the
\* constructor for a name that is no child of the network, get_neighbors for
\* a name in its layers argument that is not configured), and get_neighbors
\* returns one result per configured layer that was requested.
C6_Original ==
    /\ (pc # "new" /\ \E n \in Range(args.layers) : n \notin Range(Children))
          => (pc = "failed" /\ err = "AssertionError")
    /\ (op = "get_neighbors" /\ arg[3] # None
        /\ \E n \in Range(arg[3][1]) : n \notin Range(dknn.layers))
          => err # "none"
    /\ (op = "get_neighbors" /\ err = "none")
          => Len(ret) = Cardinality({l \in DOMAIN dknn.layers : Requested(l)})

\* C7: after the constructor has returned, no step changes the indices, the
\* training labels, the configured layers, k or A.
C7_Frame ==
    [][pc = "built" =>
          /\ pc' = "built"
          /\ dknn'.indices = dknn.indices
          /\ dknn'.y_train = dknn.y_train
          /\ dknn'.layers = dknn.layers
          /\ dknn'.k = dknn.k
          /\ dknn'.A = dknn.A]_vars

C7_Witness ==
    /\ pc = "built"
    /\ op = "get_neighbors" /\ arg[2] # None /\ KUsed # dknn.k
    /\ dknn.activations # <<>>
    /\ dknn.A # <<>>

\* C8: of two classify calls that overlap, each finishes with the vote
\* counts of its own batch, those it returns when it runs alone.
C8_Original ==
    \A c \in DOMAIN calls :
        /\ calls[c].pc # "raised"
        /\ calls[c].pc = "done" =>
              calls[c].class_counts = classify(dknn, calls[c].x).val

\* C9: of two rows given to credibility, the one with the smaller
\* nonconformity a gets a credibility at least as large, and rows with
\* equal a get equal credibility.
C9_Original ==
    op = "credibility" =>
        \A i, j \in DOMAIN arg :
            LET ai == dknn.k * Len(dknn.layers) - RowMax(arg[i])
                aj == dknn.k * Len(dknn.layers) - RowMax(arg[j])
            IN  /\ (i # j /\ ai < aj) => FloatGeq(ret[i], ret[j])
                /\ (i # j /\ ai = aj) => FloatEq(ret[i], ret[j])

\* C10: for every num_classes > 0 and labels in [0, num_classes) classify
\* succeeds (the call the constructor makes on the calibration set
\* included) and returns one row per sample with num_classes columns, cell
\* (i, c) counting the neighbours of sample i with label c.
C10_Original ==
    /\ pc = "failed" => err # "ValueError(broadcast)"
    /\ (op = "classify" /\ dknn.k <= Len(dknn.y_train)) =>
          /\ err = "none"
          /\ Len(ret) = Len(arg)
          /\ \A i \in DOMAIN ret :
                /\ Len(ret[i]) = dknn.num_classes
                /\ \A c \in DOMAIN ret[i] : ret[i][c] = VotesFor(dknn, arg[i], c - 1)

====
